---------------------------- MODULE Spec2Model ----------------------------
(***************************************************************************)
(* A model of the daytrade-partner-data backend: the process-wide TTL      *)
(* cache (app/providers/cache.py), the canonical providers that read and   *)
(* write it, the daily catalyst snapshot (app/services/catalyst_service.py)*)
(* and the AI explanation service (app/services/ai_service.py).            *)
(*                                                                         *)
(* Python strings are sequences of one-character strings, so that upper()  *)
(* and strip() and the f-string cache keys are computed, not assumed.      *)
(* Python's None is the record None; an optional integer argument is a    *)
(* sequence, empty when the argument is not passed.  Time is in seconds.   *)
(***************************************************************************)
EXTENDS Integers, Sequences, FiniteSets, TLC

VARIABLES
    now,        \* the wall clock: time.time() / datetime.now(UTC), in seconds
    nticks,     \* how many times the clock has been advanced (bounds the run)
    cache,      \* Cache._cache: key -> [value, expires_at]
    hits,       \* Cache._hits
    misses,     \* Cache._misses
    lastSet,    \* observation: key -> the last Cache.set of the key not yet
                \*   followed by a delete or clear, or None
    ret,        \* observation: the call that has just returned, with its result
    mock,       \* settings.USE_MOCK_DATA
    nextId,     \* the identity the next object built by a provider or service gets
    lastFetch,  \* observation: cache key -> the last fetch a cache miss made for it
    CACHE_DATE,      \* catalyst_service._CACHE_DATE: << >> (None) or <<midnight>>
    CACHED_EVENTS,   \* catalyst_service._CACHED_EVENTS: None or a list object
    CACHE_TIMESTAMP, \* catalyst_service._CACHE_TIMESTAMP: << >> (None) or <<time>>
    handlers,   \* each request handler of the catalyst calendar: where it is
                \*   (pc) and its local variable today
    running,    \* the handler the event loop is executing, 0 when none
    served,     \* observation: <<day of the call, identity of the list returned>>
    gens,       \* observation: the generations of the catalyst list so far
    ai          \* the explain request AIService is working on

cacheVars == <<cache, hits, misses, lastSet>>
provVars == <<mock, nextId, lastFetch>>
catVars == <<CACHE_DATE, CACHED_EVENTS, CACHE_TIMESTAMP, handlers, running, served, gens>>

None == [kind |-> "None"]
NoKey == << >>

(***************************************************************************)
(* Bounds of the model.                                                    *)
(***************************************************************************)
MaxTicks == 2
MaxGets == 3
MaxFetches == 2

(***************************************************************************)
(* Cache (app/providers/cache.py)                                          *)
(***************************************************************************)
TTL_PRICE == 30
TTL_HISTORY == 3600
TTL_NEWS == 21600

\* (mutant) an entry already counts as expired at its expiry time
is_expired_at_deadline(entry, t) == t >= entry.expires_at

\* CacheEntry.is_expired, read at clock time t
is_expired(entry, t) == t > entry.expires_at

\* dict without one key
DictDel(m, key) == [k \in (DOMAIN m) \ {key} |-> m[k]]

\* dict with one key (re)bound
DictPut(m, key, v) == [k \in (DOMAIN m) \cup {key} |-> IF k = key THEN v ELSE m[k]]

EmptyDict == [k \in {} |-> None]

\* (mutant) an expired entry still counts as a hit
GetHitsIgnoringExpiry(m, key, t) == key \in DOMAIN m

\* Cache.get: whether the read is a hit
GetHits(m, key, t) == key \in DOMAIN m /\ ~is_expired(m[key], t)

\* Cache.get: the value returned
GetValue(m, key, t) == IF GetHits(m, key, t) THEN m[key].value ELSE None

\* Cache.get: the map afterwards (an expired entry is deleted by the read)
GetMap(m, key, t) ==
    IF key \in DOMAIN m /\ is_expired(m[key], t) THEN DictDel(m, key) ELSE m

\* Cache.set, line 68: ttl = ttl or self.TTL_PRICE  (None and 0 are falsy)
EffectiveTtl(ttl) == IF ttl = << >> \/ ttl[1] = 0 THEN TTL_PRICE ELSE ttl[1]

\* (mutant) the write is dropped
SetMapDropped(m, key, value, ttl, t) == m

\* Cache.set: the map afterwards
SetMap(m, key, value, ttl, t) ==
    DictPut(m, key, [value |-> value, expires_at |-> t + EffectiveTtl(ttl)])

\* (mutant) cleanup removes every entry
ExpiredKeysAll(m, t) == DOMAIN m

\* Cache.cleanup_expired: the keys it removes
ExpiredKeys(m, t) == {k \in DOMAIN m : is_expired(m[k], t)}

\* Cache.stats; the quotient hits / (hits + misses) is kept as a fraction
stats(m, h, ms) ==
    [size |-> Cardinality(DOMAIN m), hits |-> h, misses |-> ms,
     hit_rate |-> IF h + ms > 0 THEN [num |-> h, den |-> h + ms]
                  ELSE [num |-> 0, den |-> 1]]

(***************************************************************************)
(* The cache driven directly by a client.                                  *)
(***************************************************************************)
RawKeys == {<<"k", "1">>, <<"k", "2">>}
RawValues == {[kind |-> "raw", v |-> 1], [kind |-> "raw", v |-> 2]}
RawTtls == {<< >>, <<0>>, <<1>>}
RawTickSteps == {1, TTL_PRICE}

RawGet(key) ==
    /\ hits + misses < MaxGets
    /\ cache' = GetMap(cache, key, now)
    /\ hits' = IF GetHits(cache, key, now) THEN hits + 1 ELSE hits
    /\ misses' = IF GetHits(cache, key, now) THEN misses ELSE misses + 1
    /\ ret' = [op |-> "get", key |-> key, value |-> GetValue(cache, key, now), count |-> 0]
    /\ UNCHANGED <<now, nticks, lastSet, mock, nextId, lastFetch, catVars, ai>>

RawSet(key, value, ttl) ==
    /\ cache' = SetMap(cache, key, value, ttl, now)
    /\ lastSet' = [lastSet EXCEPT ![key] = [value |-> value, at |-> now, ttl |-> ttl]]
    /\ ret' = [op |-> "set", key |-> key, value |-> None, count |-> 0]
    /\ UNCHANGED <<now, nticks, hits, misses, mock, nextId, lastFetch, catVars, ai>>

RawDelete(key) ==
    /\ cache' = IF key \in DOMAIN cache THEN DictDel(cache, key) ELSE cache
    /\ lastSet' = [lastSet EXCEPT ![key] = None]
    /\ ret' = [op |-> "delete", key |-> key, value |-> None, count |-> 0]
    /\ UNCHANGED <<now, nticks, hits, misses, mock, nextId, lastFetch, catVars, ai>>

RawClear ==
    /\ cache' = EmptyDict
    /\ lastSet' = [k \in DOMAIN lastSet |-> None]
    /\ lastFetch' = [k \in DOMAIN lastFetch |-> [lastFetch[k] EXCEPT !.disturbed = TRUE]]
    /\ ret' = [op |-> "clear", key |-> NoKey, value |-> None, count |-> 0]
    /\ UNCHANGED <<now, nticks, hits, misses, mock, nextId, catVars, ai>>

RawCleanup ==
    /\ cache' = [k \in (DOMAIN cache) \ ExpiredKeys(cache, now) |-> cache[k]]
    /\ ret' = [op |-> "cleanup_expired", key |-> NoKey, value |-> None,
               count |-> Cardinality(ExpiredKeys(cache, now))]
    /\ UNCHANGED <<now, nticks, hits, misses, lastSet, mock, nextId, lastFetch, catVars, ai>>

RawStats ==
    /\ ret' = [op |-> "stats", key |-> NoKey, value |-> stats(cache, hits, misses),
               count |-> 0]
    /\ UNCHANGED <<now, nticks, cacheVars, mock, nextId, lastFetch, catVars, ai>>

RawTick(d) ==
    /\ nticks < MaxTicks
    /\ now' = now + d
    /\ nticks' = nticks + 1
    /\ ret' = [op |-> "tick", key |-> NoKey, value |-> None, count |-> 0]
    /\ UNCHANGED <<cacheVars, mock, nextId, lastFetch, catVars, ai>>

(***************************************************************************)
(* Strings: str.upper() and str.strip()                                    *)
(***************************************************************************)
UpperChar(c) ==
    CASE c = "a" -> "A"
      [] c = "p" -> "P"
      [] c = "l" -> "L"
      [] c = "z" -> "Z"
      [] c = "m" -> "M"
      [] c = "y" -> "Y"
      [] c = "x" -> "X"
      [] OTHER -> c

Upper(s) == [i \in 1..Len(s) |-> UpperChar(s[i])]

RECURSIVE LStrip(_)
LStrip(s) == IF s # << >> /\ Head(s) = " " THEN LStrip(Tail(s)) ELSE s

RECURSIVE RStrip(_)
RStrip(s) ==
    IF s # << >> /\ s[Len(s)] = " " THEN RStrip(SubSeq(s, 1, Len(s) - 1)) ELSE s

Strip(s) == RStrip(LStrip(s))

\* an optional str argument that is None
NoSymbol == <<"None">>

\* the truth value Python gives an optional str
Truthy(s) == s # NoSymbol /\ s # << >>

(***************************************************************************)
(* Cache keys (the f-strings of the convenience methods)                   *)
(***************************************************************************)
PriceKey(symbol) == <<"p", "r", "i", "c", "e", ":">> \o Upper(symbol)

HistoryKey(symbol, period) ==
    <<"h", "i", "s", "t", "o", "r", "y", ":">> \o Upper(symbol) \o <<":">> \o period

NewsKey(symbol) ==
    IF Truthy(symbol)
    THEN <<"n", "e", "w", "s", ":">> \o Upper(symbol)
    ELSE <<"n", "e", "w", "s", ":", "m", "a", "r", "k", "e", "t">>

(***************************************************************************)
(* What the external client (yfinance) does on one request                 *)
(***************************************************************************)
\* "ok": a usable answer; "empty": no regularMarketPrice / an empty frame;
\* "raises": the client raises; "bad": an answer a later line chokes on
UpstreamOutcomes == {"ok", "empty", "raises", "bad"}

\* the exception, if any, that leaves the try body of _get_yfinance_price /
\* _get_yfinance_history
TryBody(up) ==
    CASE up = "ok" -> "return"
      [] up = "empty" -> "TickerNotFoundError"
      [] up = "raises" -> "ConnectionError"
      [] up = "bad" -> "TypeError"

\* (mutant) no catch-all clause: every exception is re-raised as it is
ExceptClausesNoCatchAll(exc) == IF exc = "return" THEN "data" ELSE exc

\* the except clauses: TickerNotFoundError is re-raised, any other Exception
\* becomes ExternalServiceError
ExceptClauses(exc) ==
    CASE exc = "return" -> "data"
      [] exc = "TickerNotFoundError" -> "TickerNotFoundError"
      [] OTHER -> "ExternalServiceError"

\* how a fetch from the source ends
FetchOutcome(up) == IF mock THEN "data" ELSE ExceptClauses(TryBody(up))

(***************************************************************************)
(* PriceProvider (app/providers/price_provider.py)                         *)
(***************************************************************************)
SOURCE == "yfinance"

PriceData(symbol, price, t, id) ==
    [kind |-> "PriceData", ticker |-> symbol, current_price |-> price,
     timestamp |-> t, source |-> SOURCE, id |-> id]

\* prices in whole dollars; the mock jitter and the market both move them
Prices == {185}

\* (mutant) the write-through is reached whatever the fetch did
StoredAlways(hit, outcome) == ~hit

\* whether a call reaches cache.set_price / cache.set_history: it did not
\* return on a hit and the fetch returned data instead of raising
Stored(hit, outcome) == ~hit /\ outcome = "data"

\* observation: what a provider call's write-through means for lastFetch
NoteFetch(key, use_cache, stored, data) ==
    IF stored /\ use_cache
    THEN DictPut(lastFetch, key, [value |-> data, at |-> now, disturbed |-> FALSE])
    ELSE IF stored /\ key \in DOMAIN lastFetch
    THEN [lastFetch EXCEPT ![key].disturbed = TRUE]
    ELSE lastFetch

\* PriceProvider.get_price(sym, use_cache); up and price are what the source
\* would answer if asked
GetPrice(sym, use_cache, up, price) ==
    LET symbol == Upper(sym)
        key == PriceKey(symbol)
        cached == IF use_cache THEN GetValue(cache, key, now) ELSE None
        hit == cached # None
        m1 == IF use_cache THEN GetMap(cache, key, now) ELSE cache
        outcome == IF hit THEN "data" ELSE FetchOutcome(up)
        stored == Stored(hit, outcome)
        data == PriceData(symbol, price, now, nextId)
    IN  /\ use_cache => hits + misses < MaxGets
        /\ stored => nextId <= MaxFetches
        /\ hits' = IF use_cache /\ hit THEN hits + 1 ELSE hits
        /\ misses' = IF use_cache /\ ~hit THEN misses + 1 ELSE misses
        /\ cache' = IF stored THEN SetMap(m1, PriceKey(symbol), data, <<TTL_PRICE>>, now)
                    ELSE m1
        /\ nextId' = IF stored THEN nextId + 1 ELSE nextId
        /\ lastFetch' = NoteFetch(key, use_cache, stored, data)
        /\ ret' = [op |-> "get_price", arg |-> sym, key |-> key,
                   use_cache |-> use_cache, outcome |-> outcome, fetched |-> ~hit,
                   asked |-> IF hit \/ mock THEN "nothing" ELSE up,
                   value |-> IF hit THEN cached ELSE IF stored THEN data ELSE None,
                   count |-> 0]
        /\ UNCHANGED <<now, nticks, lastSet, mock, catVars, ai>>

(***************************************************************************)
(* HistoryProvider (app/providers/history_provider.py)                     *)
(***************************************************************************)
PERIOD_MAP ==
    {<<"1", "D">>, <<"1", "W">>, <<"1", "M">>, <<"3", "M">>, <<"6", "M">>,
     <<"1", "Y">>, <<"3", "Y">>, <<"5", "Y">>}

\* (mutant) an unknown period is kept
NormalizePeriodNoFallback(p) == Upper(p)

\* lines 143-146: upper-case the period, fall back to 1M when unknown
NormalizePeriod(p) == IF Upper(p) \in PERIOD_MAP THEN Upper(p) ELSE <<"1", "M">>

\* _get_mock_history: the number of points per period
point_counts(period) ==
    CASE period = <<"1", "D">> -> 78
      [] period = <<"1", "W">> -> 35
      [] period = <<"1", "M">> -> 22
      [] period = <<"3", "M">> -> 65
      [] period = <<"6", "M">> -> 130
      [] period = <<"1", "Y">> -> 252
      [] period = <<"3", "Y">> -> 756
      [] period = <<"5", "Y">> -> 260
      [] OTHER -> 22

HistoryData(symbol, period, npoints, t, id) ==
    [kind |-> "HistoryData", ticker |-> symbol, period |-> period,
     npoints |-> npoints, timestamp |-> t, source |-> SOURCE, id |-> id]

\* the body of HistoryProvider.get_history(sym, p, use_cache) evaluated in the
\* current state; up and rows are what the source would answer if asked
\* (rows: the length of a non-empty frame)
HistoryCall(sym, p, use_cache, up, rows) ==
    LET symbol == Upper(sym)
        period == NormalizePeriod(p)
        key == HistoryKey(symbol, period)
        cached == IF use_cache THEN GetValue(cache, key, now) ELSE None
        hit == cached # None
        outcome == IF hit THEN "data" ELSE FetchOutcome(up)
        stored == Stored(hit, outcome)
        data == HistoryData(symbol, period,
                            IF mock THEN point_counts(period) ELSE rows, now, nextId)
    IN  [symbol |-> symbol, period |-> period, key |-> key, cached |-> cached,
         hit |-> hit,
         m1 |-> IF use_cache THEN GetMap(cache, key, now) ELSE cache,
         outcome |-> outcome, stored |-> stored, data |-> data,
         value |-> IF hit THEN cached ELSE IF stored THEN data ELSE None]

\* the effect of that body on the cache, its counters and the observations
HistoryEffect(c, use_cache) ==
    /\ use_cache => hits + misses < MaxGets
    /\ c.stored => nextId <= MaxFetches
    /\ hits' = IF use_cache /\ c.hit THEN hits + 1 ELSE hits
    /\ misses' = IF use_cache /\ ~c.hit THEN misses + 1 ELSE misses
    /\ cache' = IF c.stored
                THEN SetMap(c.m1, HistoryKey(c.symbol, c.period), c.data,
                            <<TTL_HISTORY>>, now)
                ELSE c.m1
    /\ nextId' = IF c.stored THEN nextId + 1 ELSE nextId
    /\ lastFetch' = NoteFetch(c.key, use_cache, c.stored, c.data)

\* HistoryProvider.get_history(sym, p, use_cache)
GetHistory(sym, p, use_cache, up, rows) ==
    LET c == HistoryCall(sym, p, use_cache, up, rows)
    IN  /\ HistoryEffect(c, use_cache)
        /\ ret' = [op |-> "get_history", arg |-> sym, period_arg |-> p, key |-> c.key,
                   use_cache |-> use_cache, outcome |-> c.outcome, fetched |-> ~c.hit,
                   asked |-> IF c.hit \/ mock THEN "nothing" ELSE up,
                   value |-> c.value,
                   count |-> 0]
        /\ UNCHANGED <<now, nticks, lastSet, mock, catVars, ai>>

(***************************************************************************)
(* NewsProvider (app/providers/news_provider.py)                           *)
(***************************************************************************)
NumMockHeadlines == 5

Min(a, b) == IF a < b THEN a ELSE b

\* range(min(limit, len(_MOCK_HEADLINES))): the template indices used
MockItems(limit) == [i \in 1..Min(limit, NumMockHeadlines) |-> i]

NewsData(symbol, items, t, id) ==
    [kind |-> "NewsData", ticker |-> symbol, items |-> items, timestamp |-> t,
     id |-> id]

\* NewsProvider.get_news(sym, limit, use_cache): always mock data
GetNews(sym, limit, use_cache) ==
    LET symbol == IF Truthy(sym) THEN Upper(sym) ELSE NoSymbol
        key == NewsKey(symbol)
        cached == IF use_cache THEN GetValue(cache, key, now) ELSE None
        hit == cached # None
        m1 == IF use_cache THEN GetMap(cache, key, now) ELSE cache
        stored == ~hit
        data == NewsData(symbol, MockItems(limit), now, nextId)
    IN  /\ use_cache => hits + misses < MaxGets
        /\ stored => nextId <= MaxFetches
        /\ hits' = IF use_cache /\ hit THEN hits + 1 ELSE hits
        /\ misses' = IF use_cache /\ ~hit THEN misses + 1 ELSE misses
        /\ cache' = IF stored THEN SetMap(m1, NewsKey(symbol), data, <<TTL_NEWS>>, now)
                    ELSE m1
        /\ nextId' = IF stored THEN nextId + 1 ELSE nextId
        /\ lastFetch' = NoteFetch(key, use_cache, stored, data)
        /\ ret' = [op |-> "get_news", arg |-> sym, key |-> key,
                   use_cache |-> use_cache, outcome |-> "data", fetched |-> ~hit,
                   value |-> IF hit THEN cached ELSE data, limit |-> limit,
                   count |-> 0]
        /\ UNCHANGED <<now, nticks, lastSet, mock, catVars, ai>>

(***************************************************************************)
(* The providers driven by their callers                                   *)
(***************************************************************************)
Symbols == {<<"a", "a", "p", "l">>, <<"z", "z">>}
SymbolSpellings ==
    {<<"a", "a", "p", "l">>, <<"A", "A", "P", "L">>, <<" ", "A", "A", "P", "L", " ">>}
\* the symbol asked of the live source
SourceSymbols == {<<"a", "a", "p", "l">>}
Periods == {<<"1", "M">>}
Limits == {5}
HistoryRows == {40}
(***************************************************************************)
(* CatalystService (app/services/catalyst_service.py)                      *)
(***************************************************************************)
\* seconds in an hour (datetime arithmetic is modelled in seconds)
HOUR == 60 * 60
DAY == 24 * HOUR

\* _utc_today: the clock truncated to midnight
utc_today(t) == (t \div DAY) * DAY

\* the day offsets of the seven events, in list order (timedelta(days=...))
EventOffsets == <<1, 2, 5, 9, 12, 13, 4>>
EventTypes == <<"earnings", "dividend", "split", "fed", "cpi", "ppi", "sector">>

\* (mutant) the events are anchored one day too early
generate_mock_events_from_today(t) ==
    LET base == utc_today(t) + 13 * HOUR
    IN  [i \in 1..Len(EventOffsets) |->
            [type |-> EventTypes[i], date |-> base + (EventOffsets[i] - 1) * DAY]]

\* _generate_mock_events(now): base is now at 13:00:00
generate_mock_events(t) ==
    LET base == utc_today(t) + 13 * HOUR
    IN  [i \in 1..Len(EventOffsets) |->
            [type |-> EventTypes[i], date |-> base + EventOffsets[i] * DAY]]

\* (mutant) the cached date is compared with the wrong global
CacheIsFreshByTimestamp(today) ==
    CACHE_TIMESTAMP = <<today>> /\ CACHED_EVENTS # None /\ CACHE_DATE # << >>

\* line 97: _CACHE_DATE == today and _CACHED_EVENTS is not None and
\* _CACHE_TIMESTAMP
CacheIsFresh(today) ==
    CACHE_DATE = <<today>> /\ CACHED_EVENTS # None /\ CACHE_TIMESTAMP # << >>

NumHandlers == 2
Handlers == 1..NumHandlers
MaxLists == 4

\* a request for the calendar arrives; its coroutine waits for the event loop
CatRequest(h) ==
    /\ handlers[h].pc = "idle"
    /\ handlers' = [handlers EXCEPT ![h].pc = "pending"]
    /\ UNCHANGED <<now, nticks, cacheVars, provVars, ret, CACHE_DATE, CACHED_EVENTS,
                   CACHE_TIMESTAMP, running, served, gens, ai>>

\* get_catalyst_snapshot, lines 96-99: read today, serve the cached list when
\* it is today's; otherwise go on to generate (no await: the loop stays here)
CatEnter(h) ==
    LET today == utc_today(now)
    IN  /\ handlers[h].pc = "pending"
        /\ running = 0
        /\ IF CacheIsFresh(today)
           THEN /\ handlers' = [handlers EXCEPT ![h].pc = "idle"]
                /\ ret' = [op |-> "get_catalysts", key |-> NoKey,
                           value |-> CACHED_EVENTS, count |-> 0, called_at |-> now,
                           generated |-> FALSE]
                /\ served' = served \cup {<<today, CACHED_EVENTS.id>>}
                /\ UNCHANGED running
           ELSE /\ handlers' = [handlers EXCEPT ![h] =
                                   [pc |-> "generating", today |-> today,
                                    called_at |-> now]]
                /\ running' = h
                /\ UNCHANGED <<ret, served>>
        /\ UNCHANGED <<now, nticks, cacheVars, provVars, CACHE_DATE, CACHED_EVENTS,
                       CACHE_TIMESTAMP, gens, ai>>

\* get_catalyst_snapshot, lines 101-107: read the clock again, build the list,
\* store the three globals, return
CatGenerate(h) ==
    LET today == handlers[h].today
        events == [id |-> nextId, events |-> generate_mock_events(now)]
    IN  /\ handlers[h].pc = "generating"
        /\ running = h
        /\ nextId <= MaxLists
        /\ CACHE_DATE' = <<today>>
        /\ CACHED_EVENTS' = events
        /\ CACHE_TIMESTAMP' = <<now>>
        /\ nextId' = nextId + 1
        /\ running' = 0
        /\ handlers' = [handlers EXCEPT ![h] = [pc |-> "idle", today |-> 0,
                                                called_at |-> 0]]
        /\ ret' = [op |-> "get_catalysts", key |-> NoKey, value |-> events,
                   count |-> 0, called_at |-> handlers[h].called_at,
                   generated |-> TRUE]
        /\ served' = served \cup {<<today, events.id>>}
        /\ gens' = gens \cup {[day |-> today, id |-> events.id, stamp |-> now,
                               first |-> \A p \in served : p[1] # today]}
        /\ UNCHANGED <<now, nticks, cacheVars, mock, lastFetch, ai>>

\* the clock moves on, also between a handler's two reads of it
CatTick(d) ==
    /\ nticks < MaxTicks
    /\ now' = now + d
    /\ nticks' = nticks + 1
    /\ ret' = [op |-> "tick", key |-> NoKey, value |-> None, count |-> 0]
    /\ UNCHANGED <<cacheVars, provVars, catVars, ai>>

CatIdle ==
    /\ CACHE_DATE = << >>
    /\ CACHED_EVENTS = None
    /\ CACHE_TIMESTAMP = << >>
    /\ handlers = [h \in Handlers |-> [pc |-> "idle", today |-> 0, called_at |-> 0]]
    /\ running = 0
    /\ served = {}
    /\ gens = {}

AiIdle == ai = [pc |-> "idle"]

InitCatalyst ==
    /\ now \in {0, 23 * HOUR}
    /\ nticks = 0
    /\ cache = EmptyDict
    /\ hits = 0
    /\ misses = 0
    /\ lastSet = [k \in RawKeys |-> None]
    /\ ret = [op |-> "init", key |-> NoKey, value |-> None, count |-> 0]
    /\ mock = TRUE
    /\ nextId = 1
    /\ lastFetch = EmptyDict
    /\ CatIdle
    /\ AiIdle

NextCatalyst ==
    \/ \E h \in Handlers : CatRequest(h)
    \/ \E h \in Handlers : CatEnter(h)
    \/ \E h \in Handlers : CatGenerate(h)
    \/ \E d \in {HOUR, 14 * HOUR, DAY} : CatTick(d)

(***************************************************************************)
(* AIService (app/services/ai_service.py)                                  *)
(***************************************************************************)
RequiredKeys ==
    {"whatsHappeningNow", "keyDrivers", "riskVsOpportunity", "historicalBehavior",
     "simpleRecap"}

\* A JSON value the model may send: an object is a function from its keys to
\* the kind of each value ("text": a non-empty string, or for keyDrivers a
\* non-empty list of strings; "empty": "" or []; "null"), anything else is
\* an array.
JsonObject(keys, kind) == [json |-> "object", fields |-> [k \in keys |-> kind]]
JsonArray == [json |-> "array", fields |-> [k \in {} |-> "text"]]

Payloads ==
    {JsonObject(RequiredKeys, "text"),
     JsonObject(RequiredKeys, "empty"),
     JsonObject(RequiredKeys, "null"),
     JsonObject(RequiredKeys \ {"simpleRecap"}, "text"),
     JsonObject({}, "text"),
     JsonArray}

\* The text of a completion: the payload bare, inside a ``` fence, or inside
\* prose; possibly with a trailing comma; or no JSON at all ("garbage"), or
\* the empty string, or no content (None).
Contents ==
    [form : {"bare", "fence", "prose"}, comma : BOOLEAN, payload : Payloads]
        \cup {[form |-> f, comma |-> FALSE, payload |-> JsonArray] :
                  f \in {"garbage", "empty", "none"}}

\* json.loads(text): the value, or None when it raises JSONDecodeError
json_loads(text) ==
    IF text.form = "bare" /\ ~text.comma THEN text.payload ELSE None

\* _coerce_json: drops trailing commas
coerce_json(text) == [text EXCEPT !.comma = FALSE]

\* the texts _parse_ai_response tries, in order: the stripped content, the
\* inside of a code fence, the span from the first { to the last }
Strategies(content) ==
    <<content>>
        \o (IF content.form = "fence"
            THEN <<[content EXCEPT !.form = "bare"]>> ELSE << >>)
        \o (IF content.form \in {"bare", "fence", "prose"}
               /\ content.payload.json = "object"
            THEN <<[content EXCEPT !.form = "bare"]>> ELSE << >>)

RECURSIVE TryStrategies(_)
TryStrategies(texts) ==
    IF texts = << >> THEN None
    ELSE IF json_loads(Head(texts)) # None THEN json_loads(Head(texts))
    ELSE IF json_loads(coerce_json(Head(texts))) # None
    THEN json_loads(coerce_json(Head(texts)))
    ELSE TryStrategies(Tail(texts))

\* _parse_ai_response(content)
parse_ai_response(content) ==
    IF content.form \in {"none", "empty"} THEN None
    ELSE TryStrategies(Strategies(content))

\* _validate_response_keys(parsed): a non-empty dict with the five keys
validate_response_keys(parsed) ==
    /\ parsed # None
    /\ parsed.json = "object"
    /\ DOMAIN parsed.fields # {}
    /\ \A k \in RequiredKeys : k \in DOMAIN parsed.fields

\* _generate_fallback_response: the ticker template when a symbol and its
\* snapshot are at hand, else the macro template; every field has content
generate_fallback_response(symbol, snapshot, outlook) ==
    [json |-> "object", fields |-> [k \in RequiredKeys |-> "text"],
     template |-> IF Truthy(symbol) /\ snapshot THEN "ticker" ELSE "macro"]

max_retries == 2

\* (mutant) the retry keeps the first attempt's temperature
TemperatureUnchanged(attempt) == "0.7"

\* line 386: temperature=0.7 if attempt == 0 else 0.5
Temperature(attempt) == IF attempt = 0 THEN "0.7" ELSE "0.5"

\* lines 342-348: AIResponse(...) from response_data; a field of the wrong
\* type (null) fails validation and the constructor raises
BuildResponse(response_data, via) ==
    LET field(k) == IF k \in DOMAIN response_data.fields
                    THEN response_data.fields[k] ELSE "empty"
    IN  IF \E k \in RequiredKeys : field(k) = "null"
        THEN [status |-> "raised", error |-> "ValidationError", via |-> via,
              fields |-> [k \in RequiredKeys |-> "null"]]
        ELSE [status |-> "returned", error |-> "none", via |-> via,
              fields |-> [k \in RequiredKeys |-> field(k)]]

\* what one completion call does: raise, or answer with some content
Replies == {[raises |-> TRUE, content |-> [form |-> "none", comma |-> FALSE,
                                           payload |-> JsonArray]]}
               \cup {[raises |-> FALSE, content |-> c] : c \in Contents}

\* how an attempt ends: "raised", "invalid" (no parse, or keys missing), "valid"
Verdict(reply) ==
    IF reply.raises \/ reply.content.form = "none" THEN "raised"
    ELSE IF validate_response_keys(parse_ai_response(reply.content)) THEN "valid"
    ELSE "invalid"

\* (mutant) only mock mode skips the LLM
UsesTemplateOnlyInMock(has_client) == mock

\* line 335: settings.USE_MOCK_DATA or not self._client
UsesTemplate(has_client) == mock \/ ~has_client

\* generate_explanation, lines 313-340: normalize, fetch the optional context
\* (failures swallowed), then either the template or the first LLM attempt
AiExplain(sym, snapshot_ok, outlook_ok, has_client) ==
    LET symbol == IF Truthy(sym) THEN Strip(Upper(sym)) ELSE NoSymbol
        snapshot == Truthy(symbol) /\ snapshot_ok
        outlook == Truthy(symbol) /\ outlook_ok
    IN  /\ ai.pc \in {"idle", "done"}
        /\ IF UsesTemplate(has_client)
           THEN ai' = [pc |-> "done", symbol |-> symbol, snapshot |-> snapshot,
                       outlook |-> outlook, has_client |-> has_client,
                       attempt |-> 0, calls |-> << >>,
                       result |-> BuildResponse(
                           generate_fallback_response(symbol, snapshot, outlook),
                           "fallback")]
           ELSE ai' = [pc |-> "llm", symbol |-> symbol, snapshot |-> snapshot,
                       outlook |-> outlook, has_client |-> has_client,
                       attempt |-> 0, calls |-> << >>]
        /\ UNCHANGED <<now, nticks, cacheVars, provVars, ret, catVars>>

\* _call_openai, one pass of the loop (lines 377-408) and, after the last
\* pass, the fallback (lines 410-419); then lines 342-348
AiAttempt(reply) ==
    LET call == [temperature |-> Temperature(ai.attempt), verdict |-> Verdict(reply),
                 parsed |-> IF reply.raises THEN None
                            ELSE parse_ai_response(reply.content)]
        calls == Append(ai.calls, call)
        parsed == parse_ai_response(reply.content)
    IN  /\ ai.pc = "llm"
        /\ IF ~reply.raises /\ reply.content.form # "none"
              /\ validate_response_keys(parsed)
           THEN ai' = [ai EXCEPT !.pc = "done", !.calls = calls]
                          @@ [result |-> BuildResponse(parsed, "parsed")]
           ELSE IF ai.attempt < max_retries - 1
           THEN ai' = [ai EXCEPT !.attempt = @ + 1, !.calls = calls]
           ELSE ai' = [ai EXCEPT !.pc = "done", !.calls = calls]
                          @@ [result |-> BuildResponse(
                                 generate_fallback_response(ai.symbol, ai.snapshot,
                                                            ai.outlook),
                                 "fallback")]
        /\ UNCHANGED <<now, nticks, cacheVars, provVars, ret, catVars>>

AiSymbols == {NoSymbol, <<"a", "a", "p", "l">>, <<" ", "z", "z">>}

InitAi ==
    /\ now = 0
    /\ nticks = 0
    /\ cache = EmptyDict
    /\ hits = 0
    /\ misses = 0
    /\ lastSet = [k \in RawKeys |-> None]
    /\ ret = [op |-> "init", key |-> NoKey, value |-> None, count |-> 0]
    /\ mock \in BOOLEAN
    /\ nextId = 1
    /\ lastFetch = EmptyDict
    /\ CatIdle
    /\ AiIdle

NextAi ==
    \/ \E s \in AiSymbols, so \in BOOLEAN, oo \in BOOLEAN, hc \in BOOLEAN :
           AiExplain(s, so, oo, hc)
    \/ \E r \in Replies : AiAttempt(r)

(***************************************************************************)
(* TickerService (app/services/ticker_service.py)                          *)
(***************************************************************************)
\* the keys of TickerService._MOCK_TICKERS
MOCK_TICKERS ==
    {<<"N", "V", "D", "A">>, <<"A", "A", "P", "L">>, <<"M", "S", "F", "T">>,
     <<"G", "O", "O", "G", "L">>, <<"A", "M", "Z", "N">>, <<"M", "E", "T", "A">>,
     <<"T", "S", "L", "A">>, <<"S", "P", "Y">>, <<"Q", "Q", "Q">>, <<"A", "M", "D">>}

\* the fields of the TickerSnapshot model declared with Field(...): required
TickerSnapshotRequired ==
    {"ticker", "company_name", "sector", "market_cap", "volatility", "summary",
     "timestamp", "source"}

\* the keyword arguments both builders pass to TickerSnapshot(...)
SnapshotKwargs(symbol, price) ==
    [ticker |-> symbol, company_name |-> "name", sector |-> "sector",
     market_cap |-> "cap", volatility |-> "level", summary |-> "summary",
     current_price |-> price, change_percent |-> 0, week_52_high |-> price,
     week_52_low |-> price]

\* TickerSnapshot(**kwargs): pydantic raises ValidationError when a required
\* field is not given
TickerSnapshotInit(kwargs) ==
    IF TickerSnapshotRequired \subseteq DOMAIN kwargs
    THEN "return" ELSE "ValidationError"

\* _get_mock_snapshot(symbol): how it ends
MockSnapshotOutcome(symbol, price) ==
    IF symbol \notin MOCK_TICKERS THEN "TickerNotFoundError"
    ELSE IF TickerSnapshotInit(SnapshotKwargs(symbol, price)) = "return" THEN "data"
    ELSE TickerSnapshotInit(SnapshotKwargs(symbol, price))

\* _get_yfinance_snapshot(symbol): the try body (the model is built inside
\* it), then the except clauses
LiveSnapshotOutcome(symbol, up, price) ==
    ExceptClauses(
        IF TryBody(up) = "return"
        THEN TickerSnapshotInit(SnapshotKwargs(symbol, price))
        ELSE TryBody(up))

\* TickerService.get_snapshot(sym): upper-case, then the mock table or
\* yfinance; the cache and the providers are not touched
GetSnapshot(sym, up, price) ==
    LET symbol == Upper(sym)
        outcome == IF mock THEN MockSnapshotOutcome(symbol, price)
                   ELSE LiveSnapshotOutcome(symbol, up, price)
    IN  /\ ret' = [op |-> "get_snapshot", arg |-> sym, key |-> PriceKey(symbol),
                   outcome |-> outcome,
                   asked |-> IF mock THEN "nothing" ELSE up,
                   value |-> IF outcome = "data"
                             THEN SnapshotKwargs(symbol, price) ELSE None,
                   count |-> 0]
        /\ UNCHANGED <<now, nticks, cacheVars, provVars, catVars, ai>>

(***************************************************************************)
(* Provider guards (app/providers/guards.py)                               *)
(***************************************************************************)
\* A module name is the sequence of its dotted parts; a frame of the call
\* stack is the module and the function it runs.
MaxFrames == 4

Modules ==
    {<<"app", "providers", "price_provider">>, <<"app", "services", "ticker_service">>,
     <<"__main__">>}

\* str.startswith("app.providers")
StartsWithAppProviders(name) ==
    Len(name) >= 2 /\ name[1] = "app" /\ name[2] = "providers"

\* inspect.stack()[2:] at the call of a guarded function: the caller first,
\* the outermost frame (never a providers module) last
Stacks ==
    UNION {{st \in [1..n -> Modules] : ~StartsWithAppProviders(st[n])} : n \in 1..MaxFrames}

\* _get_caller_info: f"{module}:{function}" of the first frame whose module
\* does not start with app.providers, else "unknown"
RECURSIVE get_caller_info(_)
get_caller_info(stack) ==
    IF stack = << >> THEN <<"unknown">>
    ELSE IF ~StartsWithAppProviders(Head(stack)) THEN Head(stack) \o <<":", "function">>
    ELSE get_caller_info(Tail(stack))

\* (mutant) the guard is fail-open in debug mode too
wrapper_fail_open(caller, debug) ==
    IF StartsWithAppProviders(caller)
    THEN [outcome |-> "returned", warned |-> FALSE, executions |-> 1]
    ELSE [outcome |-> "returned", warned |-> TRUE, executions |-> 1]

\* guard_direct_access.<locals>.wrapper, given the caller it identified and
\* settings.DEBUG
wrapper(caller, debug) ==
    IF StartsWithAppProviders(caller)
    THEN [outcome |-> "returned", warned |-> FALSE, executions |-> 1]
    ELSE IF debug
    THEN [outcome |-> "DirectAPIAccessError", warned |-> FALSE, executions |-> 0]
    ELSE [outcome |-> "returned", warned |-> TRUE, executions |-> 1]

\* a guarded function is called with the given stack above it
GuardedCall(stack, debug) ==
    LET caller == get_caller_info(stack)
        w == wrapper(caller, debug)
    IN  /\ ret' = [op |-> "guarded_call", stack |-> stack, debug |-> debug,
                   caller |-> caller, outcome |-> w.outcome, warned |-> w.warned,
                   executions |-> w.executions, key |-> NoKey, value |-> None,
                   count |-> 0]
        /\ UNCHANGED <<now, nticks, cacheVars, provVars, catVars, ai>>

NextGuard == \E st \in Stacks, debug \in BOOLEAN : GuardedCall(st, debug)

(***************************************************************************)
(* NewsService (app/services/news_service.py)                              *)
(***************************************************************************)
PRIMARY_WINDOW_DAYS == 7
MACRO_FALLBACK_MIN_DAYS == 30
MACRO_FALLBACK_MAX_DAYS == 60

\* A NewsItem as the service sees it: when it was published (days before the
\* fetch), which of the keywords its title and its summary contain, and
\* whether its text mentions the ticker and the sector asked for.
NewsItem(id, age, title_kw, summary_kw, has_ticker, has_sector) ==
    [id |-> id, age |-> age, title_kw |-> title_kw, summary_kw |-> summary_kw,
     has_ticker |-> has_ticker, has_sector |-> has_sector]

\* the items a provider may hand back
ProviderItems ==
    {NewsItem(1, 3, {"earnings"}, {}, TRUE, TRUE),
     NewsItem(2, 7, {}, {}, FALSE, TRUE),
     NewsItem(3, 8, {"guidance"}, {"demand"}, TRUE, TRUE),
     NewsItem(4, 29, {}, {}, FALSE, TRUE),
     NewsItem(5, 30, {}, {"demand"}, FALSE, TRUE),
     NewsItem(6, 45, {}, {}, FALSE, FALSE),
     NewsItem(7, 60, {"earnings"}, {"earnings"}, TRUE, TRUE),
     NewsItem(8, 61, {}, {}, TRUE, TRUE),
     NewsItem(9, 5, {}, {}, FALSE, TRUE)}

MaxItems == 2

ProviderAnswers == UNION {[1..n -> ProviderItems] : n \in 0..MaxItems}

\* item.published_at for an item fetched at time t
published_at(item, t) == t - item.age * DAY

\* _QueryContext: ticker is ticker.upper() if ticker else None
QueryContext(ticker, sector) ==
    [ticker |-> IF Truthy(ticker) THEN Upper(ticker) ELSE NoSymbol, sector |-> sector]

\* _QueryContext.macro_theme: ticker is None and sector is not None
macro_theme(context) == context.ticker = NoSymbol /\ context.sector # NoSymbol

\* (mutant) the fallback window is open to every query
filter_by_date_always_fallback(items, context, t) ==
    LET recent_items ==
            SelectSeq(items, LAMBDA i : published_at(i, t) >= t - PRIMARY_WINDOW_DAYS * DAY)
    IN  IF recent_items # << >> THEN recent_items
        ELSE SelectSeq(items, LAMBDA i :
                 /\ t - MACRO_FALLBACK_MAX_DAYS * DAY <= published_at(i, t)
                 /\ published_at(i, t) <= t - MACRO_FALLBACK_MIN_DAYS * DAY)

\* NewsService._filter_by_date, with the clock read at t
filter_by_date(items, context, t) ==
    LET recent_items ==
            SelectSeq(items, LAMBDA i : published_at(i, t) >= t - PRIMARY_WINDOW_DAYS * DAY)
    IN  IF recent_items # << >> \/ ~macro_theme(context) THEN recent_items
        ELSE SelectSeq(items, LAMBDA i :
                 /\ t - MACRO_FALLBACK_MAX_DAYS * DAY <= published_at(i, t)
                 /\ published_at(i, t) <= t - MACRO_FALLBACK_MIN_DAYS * DAY)

\* NewsService._filter_by_sector
filter_by_sector(items, context) ==
    IF ~Truthy(context.sector) THEN items
    ELSE SelectSeq(items, LAMBDA i : i.has_sector)

\* NewsService._calculate_relevance, in hundredths
calculate_relevance(item, context) ==
    LET title_hits == Cardinality(item.title_kw)
        summary_hits == Cardinality(item.summary_kw)
        combined_hits == Cardinality(item.title_kw \cup item.summary_kw)
        base == 10 * combined_hits + 15 * summary_hits + 20 * title_hits
        with_ticker == IF Truthy(context.ticker) /\ item.has_ticker THEN 20 ELSE 0
        with_sector == IF Truthy(context.sector) /\ item.has_sector THEN 10 ELSE 0
    IN  Min(base + with_ticker + with_sector, 100)

\* datetime.isoformat() of a UTC time: the zero-padded date and time-of-day
\* fields, which strings compare field by field from the left
isoformat(t) == <<t \div DAY, t % DAY>>

\* datetime.fromisoformat
fromisoformat(text) == text[1] * DAY + text[2]

\* str < str on two isoformat texts
IsoLess(a, b) == a[1] < b[1] \/ (a[1] = b[1] /\ a[2] < b[2])

\* NewsService._format_item
format_item(item, context, t) ==
    [headline |-> item.id, published |-> isoformat(published_at(item, t)),
     relevance |-> calculate_relevance(item, context),
     ticker_match |-> Truthy(context.ticker) /\ item.has_ticker]

\* (mutant) the sort key is the relevance alone
KeyLessByRelevance(a, b) == a.relevance < b.relevance

\* the sort key (relevance, published) compared
KeyLess(a, b) ==
    \/ a.relevance < b.relevance
    \/ a.relevance = b.relevance /\ IsoLess(a.published, b.published)

RECURSIVE InsertDesc(_, _)
InsertDesc(x, sorted) ==
    IF sorted = << >> THEN <<x>>
    ELSE IF KeyLess(Head(sorted), x) THEN <<x>> \o sorted
    ELSE <<Head(sorted)>> \o InsertDesc(x, Tail(sorted))

\* list.sort(key=..., reverse=True): descending and stable
RECURSIVE SortDesc(_)
SortDesc(seq) ==
    IF seq = << >> THEN << >>
    ELSE InsertDesc(seq[Len(seq)], SortDesc(SubSeq(seq, 1, Len(seq) - 1)))

ServiceTickers == {NoSymbol, << >>, <<"a", "a", "p", "l">>}
ServiceSectors == {NoSymbol, << >>, <<"t", "e", "c", "h">>}
ServiceLimits == {1, 5}

\* NewsService.get_news(ticker, sector, limit), the provider answering with
\* fetched.  The service keeps no state from one call to the next, so a
\* behaviour makes one call.
NewsServiceGet(ticker, sector, limit, fetched) ==
    LET context == QueryContext(ticker, sector)
        dated == filter_by_date(fetched, context, now)
        items == filter_by_sector(dated, context)
        ranked == SortDesc([i \in 1..Len(items) |-> format_item(items[i], context, now)])
    IN  /\ ret.op = "init"
        /\ ret' = [op |-> "news_service", ticker |-> ticker, sector |-> sector,
                   limit |-> limit, fetched |-> fetched,
                   value |-> SubSeq(ranked, 1, Min(limit, Len(ranked))),
                   key |-> NoKey, count |-> 0]
        /\ UNCHANGED <<now, nticks, cacheVars, provVars, catVars, ai>>

NextNews ==
    \E t \in ServiceTickers, sec \in ServiceSectors, lim \in ServiceLimits,
       f \in ProviderAnswers : NewsServiceGet(t, sec, lim, f)

(***************************************************************************)
(* OutlookEngine (app/services/outlook_engine.py)                          *)
(***************************************************************************)
\* a float in hundredths; nan compares false with everything
Num(v) == [nan |-> FALSE, v |-> v]
NaN == [nan |-> TRUE, v |-> 0]
Gt(x, c) == ~x.nan /\ x.v > c
Lt(x, c) == ~x.nan /\ x.v < c

\* (mutant) the hit-rate threshold of the positive case is inclusive
determine_sentiment_inclusive(hit_rate, recent_90d_return) ==
    IF ~Lt(hit_rate, 55) /\ ~hit_rate.nan /\ Gt(recent_90d_return, 0) THEN "positive"
    ELSE IF Lt(hit_rate, 45) \/ Lt(recent_90d_return, -10) THEN "cautious"
    ELSE "mixed"

\* lines 70-75
determine_sentiment(hit_rate, recent_90d_return) ==
    IF Gt(hit_rate, 55) /\ Gt(recent_90d_return, 0) THEN "positive"
    ELSE IF Lt(hit_rate, 45) \/ Lt(recent_90d_return, -10) THEN "cautious"
    ELSE "mixed"

\* len(closes[:-window]) and len(closes[window:]) for an array of n closes
LenHead(n, window) ==
    IF window > 0 THEN (IF n > window THEN n - window ELSE 0)
    ELSE IF window = 0 THEN 0
    ELSE Min(n, 0 - window)
LenTail(n, window) ==
    IF window >= 0 THEN (IF n > window THEN n - window ELSE 0)
    ELSE Min(n, 0 - window)

\* _compute_rolling_returns: the number of returns, or the error of an
\* elementwise operation on arrays that do not broadcast
compute_rolling_returns(n, window) ==
    IF n <= window THEN [raised |-> "none", len |-> 0]
    ELSE LET a == LenTail(n, window)
             b == LenHead(n, window)
         IN  IF a = b THEN [raised |-> "none", len |-> a]
             ELSE IF a = 1 THEN [raised |-> "none", len |-> b]
             ELSE IF b = 1 THEN [raised |-> "none", len |-> a]
             ELSE [raised |-> "ValueError", len |-> 0]

\* (mutant) a history of exactly timeframe_days + 1 points is refused
too_few_points_inclusive(npoints, timeframe_days) == npoints <= timeframe_days + 1

\* line 114
too_few_points(npoints, timeframe_days) == npoints < timeframe_days + 1

\* _compute_recent_return: 0.0 when there is no earlier close, else what
\* the closes give
compute_recent_return(npoints, days, trend) ==
    LET d == IF npoints < days + 1 THEN npoints - 1 ELSE days
    IN  IF d <= 0 THEN Num(0) ELSE trend

\* closes that rise all the way or fall all the way: the fraction of winning
\* windows (in hundredths) and the return of the last 90 days
OutlookHitRate(rising) == IF rising THEN 100 ELSE 0
OutlookTrend(rising) == IF rising THEN Num(5) ELSE Num(-20)
\* the timeframe_days the request schemas let through (10..365)
Timeframes == {10, 30, 365}
\* the lengths of the frame the source answers for three years
OutlookRows == {1, 10, 11, 31, 365, 366}

\* OutlookEngine.compute_outlook(sym, timeframe_days)
ComputeOutlook(sym, timeframe_days, up, rows, rising) ==
    LET symbol == Upper(sym)
        c == HistoryCall(symbol, <<"3", "Y">>, TRUE, up, rows)
        npoints == IF c.value = None THEN 0 ELSE c.value.npoints
        rolling == compute_rolling_returns(npoints, timeframe_days)
        hit_rate == Num(OutlookHitRate(rising))
        recent == compute_recent_return(npoints, 90, OutlookTrend(rising))
        computed == /\ c.outcome = "data"
                    /\ ~too_few_points(npoints, timeframe_days)
                    /\ rolling.raised = "none"
                    /\ rolling.len # 0
        outcome == IF c.outcome # "data" THEN c.outcome
                   ELSE IF too_few_points(npoints, timeframe_days) THEN "TickerNotFoundError"
                   ELSE IF rolling.raised # "none" THEN rolling.raised
                   ELSE IF rolling.len = 0 THEN "TickerNotFoundError"
                   ELSE "return"
    IN  /\ HistoryEffect(c, TRUE)
        /\ ret' = [op |-> "compute_outlook", arg |-> sym, key |-> c.key,
                   timeframe_days |-> timeframe_days, history |-> c.value,
                   history_outcome |-> c.outcome,
                   rolling |-> IF computed THEN rolling.len ELSE 0,
                   sentiment |-> IF computed
                                 THEN <<determine_sentiment(hit_rate, recent)>>
                                 ELSE << >>,
                   outcome |-> outcome, value |-> None, count |-> 0]
        /\ UNCHANGED <<now, nticks, lastSet, mock, catVars, ai>>

\* OutlookEngine called for one symbol while the cached history ages
NextOutlook ==
    \/ \E s \in SourceSymbols, tf \in Timeframes, up \in {"ok", "empty", "raises"},
          rows \in OutlookRows, rising \in BOOLEAN :
           ComputeOutlook(s, tf, up, rows, rising)
    \/ \E d \in {TTL_HISTORY + 1} : RawTick(d)

\* the (hit_rate, recent_90d_return) pairs around the thresholds
SentimentHitRates == 40 .. 60
SentimentReturns == {Num(v) : v \in -12 .. 2} \cup {NaN}

\* _determine_sentiment applied to one pair
DetermineSentiment(hit_rate, recent_90d_return) ==
    /\ ret.op = "init"
    /\ ret' = [op |-> "determine_sentiment", hit_rate |-> hit_rate,
               recent_90d_return |-> recent_90d_return,
               sentiment |-> determine_sentiment(Num(hit_rate), recent_90d_return),
               key |-> NoKey, value |-> None, count |-> 0]
    /\ UNCHANGED <<now, nticks, cache, hits, misses, lastSet, mock, nextId,
                   lastFetch, catVars, ai>>

NextSentiment ==
    \E h \in SentimentHitRates, r \in SentimentReturns : DetermineSentiment(h, r)

(***************************************************************************)
(* PatternEngine (app/services/pattern_engine.py)                          *)
(***************************************************************************)
\* str.lower() on the letters the tags below are written with
LowerChar(c) ==
    CASE c = "C" -> "c"
      [] c = "E" -> "e"
      [] c = "F" -> "f"
      [] c = "I" -> "i"
      [] c = "M" -> "m"
      [] c = "O" -> "o"
      [] c = "P" -> "p"
      [] c = "R" -> "r"
      [] c = "W" -> "w"
      [] OTHER -> c

Lower(s) == [i \in 1..Len(s) |-> LowerChar(s[i])]

TagEarnings == <<"e", "a", "r", "n", "i", "n", "g", "s">>
TagFedWeek == <<"f", "e", "d", " ", "w", "e", "e", "k">>
TagHighInflation == <<"h", "i", "g", "h", " ", "i", "n", "f", "l", "a", "t", "i", "o", "n">>

\* _CONTEXT_SYNONYMS
CONTEXT_SYNONYMS ==
    (<<"e", "a", "r", "n", "i", "n", "g", "s">> :> TagEarnings) @@
    (<<"e", "a", "r", "n", "i", "n", "g", "s", " ", "p", "e", "r", "i", "o", "d">> :> TagEarnings) @@
    (<<"e", "a", "r", "n", "i", "n", "g", "s", " ", "w", "e", "e", "k">> :> TagEarnings) @@
    (<<"f", "e", "d">> :> TagFedWeek) @@
    (<<"f", "e", "d", " ", "w", "e", "e", "k">> :> TagFedWeek) @@
    (<<"f", "o", "m", "c">> :> TagFedWeek) @@
    (<<"h", "i", "g", "h", " ", "i", "n", "f", "l", "a", "t", "i", "o", "n">> :> TagHighInflation) @@
    (<<"i", "n", "f", "l", "a", "t", "i", "o", "n">> :> TagHighInflation) @@
    (<<"c", "p", "i">> :> TagHighInflation)

\* _CONTEXT_SYNONYMS.get(tag, tag)
Synonym(tag) == IF tag \in DOMAIN CONTEXT_SYNONYMS THEN CONTEXT_SYNONYMS[tag] ELSE tag

\* _normalize_context: sorted(set(...)), kept as the set
normalize_context(context) ==
    {Synonym(Lower(Strip(context[i]))) :
        i \in {j \in 1..Len(context) : Lower(Strip(context[j])) # << >>}}

\* _context_matcher: the tag whose lambda is returned, or None
context_matcher(tag) ==
    LET normalized == Synonym(tag)
    IN  IF normalized \in {TagEarnings, TagFedWeek, TagHighInflation}
        THEN <<normalized>> ELSE << >>

\* the three lambdas of _context_matcher
matcher_call(matcher, date) ==
    CASE matcher = TagEarnings -> date.month \in {1, 4, 7, 10}
      [] matcher = TagFedWeek -> date.month \in {1, 3, 5, 6, 7, 9, 11, 12}
      [] matcher = TagHighInflation -> date.year \in {2021, 2022}

\* (mutant) one recognised tag is enough
matches_context_any(date, context) ==
    LET matchers == {context_matcher(tag)[1] : tag \in {t \in context : context_matcher(t) # << >>}}
    IN  matchers = {} \/ \E m \in matchers : matcher_call(m, date)

\* _matches_context
matches_context(date, context) ==
    LET matchers == {context_matcher(tag)[1] : tag \in {t \in context : context_matcher(t) # << >>}}
    IN  matchers = {} \/ \A m \in matchers : matcher_call(m, date)

\* range(len(points) - window_size + 1)
WindowRange(points, window_size) == 0 .. (Len(points) - window_size)

\* _select_window_indices: the ascending list of indices, kept as the set
select_window_indices(points, window_size, context) ==
    LET normalized == normalize_context(context)
    IN  IF normalized = {} THEN WindowRange(points, window_size)
        ELSE {idx \in WindowRange(points, window_size) :
                  matches_context(points[idx + 1].date, normalized)}

\* (mutant) the notes never say that nothing matched
build_notes_always_filtered(context, filtered) ==
    LET normalized == normalize_context(context)
    IN  IF normalized = {} THEN [text |-> "summarized across broader", tags |-> {}]
        ELSE [text |-> "clustered around", tags |-> normalized]

\* _build_notes: which of the three sentences, and the tags it names
build_notes(context, filtered) ==
    LET normalized == normalize_context(context)
    IN  IF normalized = {} THEN [text |-> "summarized across broader", tags |-> {}]
        ELSE IF filtered THEN [text |-> "clustered around", tags |-> normalized]
        ELSE [text |-> "No direct matches", tags |-> normalized]

\* _compute_window_metrics: the number of windows measured
window_count(points, window_size) ==
    IF Len(points) - window_size + 1 <= 0 THEN 0 ELSE Len(points) - window_size + 1

\* _build_pattern: the windows aggregated, their number and the notes
build_pattern(points, context) ==
    LET window_size == 5
        nreturns == window_count(points, window_size)
        indices == select_window_indices(points, window_size, context)
        fallback == indices = {}
        used == IF fallback THEN 0 .. (nreturns - 1) ELSE indices
    IN  [aggregated |-> used, sample_size |-> Cardinality(used),
         notes |-> IF fallback THEN build_notes(context, FALSE)
                   ELSE build_notes(context, TRUE)]

\* bounds of the inputs
MaxTags == 2
MaxPoints == 7

\* start dates in chronological order, as the provider delivers them
Date(y, m) == [year |-> y, month |-> m]
Timeline ==
    <<Date(2021, 1), Date(2021, 2), Date(2022, 4), Date(2023, 3), Date(2023, 8),
      Date(2024, 1), Date(2024, 10), Date(2025, 2), Date(2025, 5), Date(2025, 6),
      Date(2025, 8)>>

HistoryPoint(date) == [date |-> date]

\* histories of 6..MaxPoints points: stretches of the timeline
PatternHistories ==
    {[i \in 1..n |-> HistoryPoint(Timeline[first + i - 1])] :
        <<first, n>> \in {fn \in (1..Len(Timeline)) \X (6..MaxPoints) :
                             fn[1] + fn[2] - 1 <= Len(Timeline)}}

\* raw tags: canonical, synonyms, other case, padded, unrecognised, blank
RawTags ==
    {<<"e", "a", "r", "n", "i", "n", "g", "s">>, <<"E", "a", "r", "n", "i", "n", "g", "s", " ", "W", "e", "e", "k">>, <<" ", "F", "O", "M", "C", " ">>,
     <<"f", "e", "d", " ", "w", "e", "e", "k">>, <<"c", "p", "i">>, <<"i", "n", "f", "l", "a", "t", "i", "o", "n">>,
     <<"r", "a", "l", "l", "y">>, <<" ">>}

RECURSIVE TagLists(_)
TagLists(n) ==
    IF n = 0 THEN {<< >>}
    ELSE TagLists(n - 1) \cup
         {Append(l, t) : l \in {x \in TagLists(n - 1) : Len(x) = n - 1}, t \in RawTags}

\* PatternEngine._build_pattern(points, context)
BuildPattern(points, context) ==
    /\ ret.op = "init"
    /\ ret' = [op |-> "build_pattern", points |-> points, context |-> context,
               selected |-> select_window_indices(points, 5, context),
               pattern |-> build_pattern(points, context),
               key |-> NoKey, value |-> None, count |-> 0]
    /\ UNCHANGED <<now, nticks, cache, hits, misses, lastSet, mock, nextId,
                   lastFetch, catVars, ai>>

NextPattern ==
    \E points \in PatternHistories, context \in TagLists(MaxTags) :
        BuildPattern(points, context)

(***************************************************************************)
(* The imports of the API routers (app/api/*.py), as                       *)
(* tests/test_api_layering.py reads them                                   *)
(***************************************************************************)
ApiModules == {"__init__", "ai", "explain", "health", "market", "outlook", "pattern"}

\* ast.ImportFrom / ast.Import nodes: the dotted module name in segments
FromImport(module) == [node |-> "ImportFrom", module |-> module]

\* every import statement of each file under app/api
ApiImports(m) ==
    CASE m = "__init__" -> {FromImport(<<"app", "api">>)}
      [] m = "ai" ->
            {FromImport(<<"fastapi">>), FromImport(<<"app", "models", "explain">>),
             FromImport(<<"app", "services", "ai_service">>)}
      [] m = "explain" ->
            {FromImport(<<"fastapi">>), FromImport(<<"app", "models", "explain">>),
             FromImport(<<"app", "services", "explain_service">>)}
      [] m = "health" ->
            {FromImport(<<"datetime">>), FromImport(<<"fastapi">>),
             FromImport(<<"pydantic">>)}
      [] m = "market" ->
            {FromImport(<<"fastapi">>), FromImport(<<"app", "models", "ticker">>),
             FromImport(<<"app", "services", "ticker_service">>)}
      [] m = "outlook" ->
            {FromImport(<<"fastapi">>), FromImport(<<"app", "models", "outlook">>),
             FromImport(<<"app", "services", "outlook_engine">>)}
      [] m = "pattern" ->
            {FromImport(<<"fastapi">>), FromImport(<<"app", "models", "pattern">>),
             FromImport(<<"app", "services", "pattern_engine">>)}

\* (mutant) every module of the application counts as a provider
is_app_import(name) == Len(name) >= 1 /\ name[1] = "app"

\* name == "app.providers" or name.startswith("app.providers.")
is_provider_import(name) ==
    Len(name) >= 2 /\ name[1] = "app" /\ name[2] = "providers"

\* _find_provider_imports
find_provider_imports(m) ==
    {imp.module : imp \in {i \in ApiImports(m) : is_provider_import(i.module)}}

\* the files the loop of the test has read so far, and what it has found
Scanned == IF ret.op = "scan" THEN ret.scanned ELSE {}
Found == IF ret.op = "scan" THEN ret.provider_imports ELSE {}

\* one turn of the loop over api_dir.glob("*.py"), which yields the files in
\* no particular order
ScanModule(m) ==
    /\ ret.op \in {"init", "scan"}
    /\ m \notin Scanned
    /\ ret' = [op |-> "scan", scanned |-> Scanned \cup {m},
               provider_imports |->
                   Found \cup {<<m, name>> : name \in find_provider_imports(m)},
               key |-> NoKey, value |-> None, count |-> 0]
    /\ UNCHANGED <<now, nticks, cache, hits, misses, lastSet, mock, nextId,
                   lastFetch, catVars, ai>>

NextLayering == \E m \in ApiModules : ScanModule(m)

InitProv ==
    /\ now = 0
    /\ nticks = 0
    /\ cache = EmptyDict
    /\ hits = 0
    /\ misses = 0
    /\ lastSet = [k \in RawKeys |-> None]
    /\ ret = [op |-> "init", key |-> NoKey, value |-> None, count |-> 0]
    /\ mock \in BOOLEAN
    /\ nextId = 1
    /\ lastFetch = EmptyDict
    /\ CatIdle
    /\ AiIdle

\* PriceProvider alone
NextPrice ==
    \/ \E s \in Symbols, uc \in BOOLEAN, up \in UpstreamOutcomes, pr \in Prices :
           GetPrice(s, uc, up, pr)
    \/ RawClear
    \/ \E d \in {1, TTL_PRICE} : RawTick(d)

\* PriceProvider and HistoryProvider against every behaviour of the source
NextSource ==
    \/ \E s \in SourceSymbols, uc \in BOOLEAN, up \in UpstreamOutcomes, pr \in Prices :
           GetPrice(s, uc, up, pr)
    \/ \E s \in SourceSymbols, p \in Periods, uc \in BOOLEAN, up \in UpstreamOutcomes,
          rows \in HistoryRows : GetHistory(s, p, uc, up, rows)
    \/ \E d \in {TTL_PRICE + 1} : RawTick(d)

\* the three providers called with the spellings of one symbol
NextSpell ==
    \/ \E s \in SymbolSpellings, uc \in BOOLEAN, pr \in Prices :
           GetPrice(s, uc, "ok", pr)
    \/ \E s \in SymbolSpellings, p \in Periods, uc \in BOOLEAN, rows \in HistoryRows :
           GetHistory(s, p, uc, "ok", rows)
    \/ \E s \in SymbolSpellings \cup {NoSymbol}, lim \in Limits, uc \in BOOLEAN :
           GetNews(s, lim, uc)

\* TickerService beside the PriceProvider it is meant to read through
NextTicker ==
    \/ \E s \in Symbols, up \in UpstreamOutcomes, pr \in Prices : GetSnapshot(s, up, pr)
    \/ \E s \in Symbols, uc \in BOOLEAN, pr \in Prices : GetPrice(s, uc, "ok", pr)
    \/ \E d \in {1, TTL_PRICE} : RawTick(d)

\* the limits callers pass to NewsProvider.get_news
NewsLimits == {1, 5, 7}

\* NewsProvider called again and again with changing limits
NextNewsProvider ==
    \/ \E s \in Symbols \cup {NoSymbol}, lim \in NewsLimits, uc \in BOOLEAN :
           GetNews(s, lim, uc)
    \/ \E d \in {HOUR, TTL_NEWS} : RawTick(d)

\* the periods callers pass: known, known in lower case, unknown, empty
HistoryPeriods == {<<"1", "M">>, <<"3", "m">>, <<"2", "W">>, << >>}

\* HistoryProvider called with known and unknown periods
NextHistory ==
    \/ \E s \in SourceSymbols, p \in HistoryPeriods, uc \in BOOLEAN,
          up \in {"ok", "empty"}, rows \in HistoryRows : GetHistory(s, p, uc, up, rows)
    \/ \E d \in {TTL_HISTORY + 1} : RawTick(d)

vars == <<now, nticks, cache, hits, misses, lastSet, ret, mock, nextId, lastFetch,
          catVars, ai>>

InitCache ==
    /\ now = 0
    /\ nticks = 0
    /\ cache = EmptyDict
    /\ hits = 0
    /\ misses = 0
    /\ lastSet = [k \in RawKeys |-> None]
    /\ ret = [op |-> "init", key |-> NoKey, value |-> None, count |-> 0]
    /\ mock = TRUE
    /\ nextId = 1
    /\ lastFetch = EmptyDict
    /\ CatIdle
    /\ AiIdle

NextCache ==
    \/ \E k \in RawKeys : RawGet(k)
    \/ \E k \in RawKeys, v \in RawValues, ttl \in RawTtls : RawSet(k, v, ttl)
    \/ \E k \in RawKeys : RawDelete(k)
    \/ RawClear
    \/ RawCleanup
    \/ RawStats
    \/ \E d \in RawTickSteps : RawTick(d)

SpecCache == InitCache /\ [][NextCache]_vars

SpecPrice == InitProv /\ [][NextPrice]_vars

SpecSource == InitProv /\ [][NextSource]_vars

SpecSpell == InitProv /\ [][NextSpell]_vars

SpecTicker == InitProv /\ [][NextTicker]_vars

SpecGuard == InitProv /\ [][NextGuard]_vars

SpecNews == InitProv /\ [][NextNews]_vars

SpecNewsProvider == InitProv /\ [][NextNewsProvider]_vars

SpecHistory == InitProv /\ [][NextHistory]_vars

SpecOutlook == InitProv /\ [][NextOutlook]_vars

SpecSentiment == InitProv /\ [][NextSentiment]_vars

SpecPattern == InitProv /\ [][NextPattern]_vars

SpecLayering == InitProv /\ [][NextLayering]_vars

SpecCatalyst == InitCatalyst /\ [][NextCatalyst]_vars

SpecAi == InitAi /\ [][NextAi]_vars

(***************************************************************************)
(* Claims about the cache and the providers                                *)
(***************************************************************************)

\* C1: after Cache.set(key, v, ttl) at time t, with no later set, delete or
\* clear of the key, a get(key) at a time <= t + ttl returns v, and a get at a
\* time > t + ttl returns absent and leaves the key out of the map.
\* (Checked in the state right after each get; lastSet holds the set.)
C1_GetFollowsSet ==
    (ret.op = "get" /\ lastSet[ret.key] # None /\ lastSet[ret.key].ttl # << >>) =>
        LET s == lastSet[ret.key]
            deadline == s.at + s.ttl[1]
        IN  /\ now <= deadline => ret.value = s.value
            /\ now > deadline => ret.value = None /\ ret.key \notin DOMAIN cache

\* C18: Cache.set(key, value, ttl) stores expires_at = now + ttl for every
\* ttl >= 0 passed explicitly, and uses the default TTL only when no ttl is
\* passed.  (Read in the state right after the set.)
C18_SetStoresNowPlusTtl ==
    ret.op = "set" =>
        LET passed == lastSet[ret.key].ttl
        IN  /\ ret.key \in DOMAIN cache
            /\ cache[ret.key].value = lastSet[ret.key].value
            /\ cache[ret.key].expires_at =
                   now + (IF passed = << >> THEN TTL_PRICE ELSE passed[1])

\* what a step of the cache does to the counters, and what stats reports
CounterStep ==
    /\ ret'.op = "get" =>
           LET found == /\ ret'.key \in DOMAIN cache
                        /\ now <= cache[ret'.key].expires_at
           IN  /\ hits' + misses' = hits + misses + 1
               /\ found => hits' = hits + 1 /\ misses' = misses
               /\ ~found => misses' = misses + 1 /\ hits' = hits
    /\ ret'.op \in {"set", "delete", "clear", "cleanup_expired", "stats", "tick"} =>
           hits' = hits /\ misses' = misses
    /\ ret'.op = "stats" =>
           /\ ret'.value.hits = hits
           /\ ret'.value.misses = misses
           /\ ret'.value.size = Cardinality(DOMAIN cache)
           /\ IF hits + misses = 0
              THEN ret'.value.hit_rate.num = 0
              ELSE ret'.value.hit_rate.num * (hits + misses)
                       = hits * ret'.value.hit_rate.den

\* C19: the counters start at zero; every Cache.get adds one to hits + misses,
\* to misses exactly when the key is absent or its entry expired; set, delete,
\* clear and cleanup_expired (and stats, and the passing of time) change
\* neither counter; stats reports the counters and hit_rate = hits / (hits +
\* misses), or 0 when there has been no get.
C19_CountersCountGets == (hits = 0 /\ misses = 0) /\ [][CounterStep]_vars

\* C19 witness: stats after one hit and two misses (one of them on an expired
\* entry, which the read removed)
C19_Witness ==
    /\ ret.op = "stats"
    /\ ret.value.hits = 1
    /\ ret.value.misses = 2
    /\ ret.value.hit_rate = [num |-> 1, den |-> 3]
    /\ \E k \in RawKeys : lastSet[k] # None /\ k \notin DOMAIN cache

\* a step in which PriceProvider.get_price(S, use_cache=true) runs
CachedPriceCall ==
    /\ ret'.op = "get_price"
    /\ ret'.use_cache
    /\ hits' + misses' = hits + misses + 1

\* C2 as stated: once a cache miss has fetched S at time t, a
\* get_price(S, use_cache=true) at a time <= t + 30 returns that fetch's object
\* without asking the source, and one at a time > t + 30 asks the source and
\* replaces the entry.
C2_AsStated ==
    [][(CachedPriceCall /\ ret'.key \in DOMAIN lastFetch) =>
          LET f == lastFetch[ret'.key]
          IN  /\ now <= f.at + TTL_PRICE =>
                    ret'.value = f.value /\ ~ret'.fetched
              /\ now > f.at + TTL_PRICE =>
                    /\ ret'.fetched
                    /\ ret'.key \in DOMAIN cache'
                    /\ cache'[ret'.key].value = ret'.value
                    /\ ret'.value.id # f.value.id]_vars

\* C2 amended: the same, provided that since that fetch no
\* get_price(S, use_cache=false) has stored new data and the cache has not been
\* cleared; and after the TTL the entry is replaced when the new fetch returns
\* data (in live mode it may raise instead).
C2_FreshWithinTtl ==
    [][(CachedPriceCall /\ ret'.key \in DOMAIN lastFetch
          /\ ~lastFetch[ret'.key].disturbed) =>
          LET f == lastFetch[ret'.key]
          IN  /\ now <= f.at + TTL_PRICE =>
                    ret'.value = f.value /\ ~ret'.fetched
              /\ now > f.at + TTL_PRICE =>
                    /\ ret'.fetched
                    /\ ret'.outcome = "data" =>
                          /\ ret'.key \in DOMAIN cache'
                          /\ cache'[ret'.key].value = ret'.value
                          /\ cache'[ret'.key].expires_at = now + TTL_PRICE
                          /\ ret'.value.id # f.value.id]_vars

\* C2 witness: a cached call at the very end of the TTL got the object that a
\* miss fetched 30 seconds earlier
C2_Witness ==
    /\ ret.op = "get_price"
    /\ ret.use_cache
    /\ ~ret.fetched
    /\ ret.key \in DOMAIN lastFetch
    /\ ~lastFetch[ret.key].disturbed
    /\ ret.value = lastFetch[ret.key].value
    /\ now = lastFetch[ret.key].at + TTL_PRICE

\* the symbol every spelling stands for
Canon(s) == Strip(Upper(s))

\* C3: whatever the spelling of the symbol (case, surrounding blanks), each
\* provider uses the cache key of the upper-cased, trimmed symbol and returns
\* data whose ticker is that symbol.
C3_OneKeyPerSymbol ==
    (ret.op \in {"get_price", "get_history", "get_news"} /\ Truthy(ret.arg)) =>
        /\ ret.value.ticker = Canon(ret.arg)
        /\ ret.key = CASE ret.op = "get_price" -> PriceKey(Canon(ret.arg))
                       [] ret.op = "get_history" ->
                              HistoryKey(Canon(ret.arg), ret.value.period)
                       [] ret.op = "get_news" -> NewsKey(Canon(ret.arg))

\* C4: in live mode a get_price or get_history call returns data, or raises
\* TickerNotFoundError (the source had no price / no rows), or raises
\* ExternalServiceError (anything else went wrong); nothing else escapes.
C4_ThreeOutcomes ==
    (~mock /\ ret.op \in {"get_price", "get_history"}) =>
        /\ ret.outcome \in {"data", "TickerNotFoundError", "ExternalServiceError"}
        /\ ret.outcome = "data" <=> ret.asked \in {"nothing", "ok"}
        /\ ret.outcome = "data" <=> ret.value # None
        /\ ret.outcome = "TickerNotFoundError" <=> ret.asked = "empty"
        /\ ret.outcome = "ExternalServiceError" <=> ret.asked \in {"raises", "bad"}

\* C4 witness: a live history call on which a later line of the try body
\* choked ended in ExternalServiceError
C4_Witness ==
    /\ ~mock
    /\ ret.op = "get_history"
    /\ ret.asked = "bad"
    /\ ret.outcome = "ExternalServiceError"

\* C16: whatever calls came before, a NewsProvider.get_news call returns at
\* most min(limit, 5) items, limit being the limit of that call.
C16_AtMostLimitItems ==
    ret.op = "get_news" =>
        Len(ret.value.items) <= Min(ret.limit, NumMockHeadlines)

\* C17: get_history(S, p) with a period p outside PERIOD_MAP does what
\* get_history(S, "1M") does: the period itself causes no error (in mock mode
\* the call returns data), the cache key read and written is history:S:1M,
\* no other key changes, and the HistoryData returned has period 1M.
C17_UnknownPeriodIsOneMonth ==
    [][(ret'.op = "get_history" /\ hits' + misses' + nextId' > hits + misses + nextId
           /\ Upper(ret'.period_arg) \notin PERIOD_MAP) =>
          LET key1M == HistoryKey(Upper(ret'.arg), <<"1", "M">>)
              fresh == key1M \in DOMAIN cache /\ now <= cache[key1M].expires_at
          IN  /\ ret'.key = key1M
              /\ (ret'.use_cache /\ fresh) =>
                     ret'.value = cache[key1M].value /\ ~ret'.fetched
              /\ ~(ret'.use_cache /\ fresh) => ret'.fetched
              /\ mock => ret'.outcome = "data"
              /\ ret'.asked \in {"nothing", "ok"} <=> ret'.outcome = "data"
              /\ ret'.outcome = "data" =>
                     /\ ret'.value.period = <<"1", "M">>
                     /\ ret'.value.ticker = Upper(ret'.arg)
                     /\ cache'[key1M].value = ret'.value
              /\ (ret'.fetched /\ ret'.outcome = "data") =>
                     cache'[key1M].expires_at = now + TTL_HISTORY
              /\ \A k \in DOMAIN cache' \ {key1M} :
                     k \in DOMAIN cache /\ cache'[k] = cache[k]]_vars

\* C17 witness: a call with the unknown period 2W was answered from the entry
\* a 1M call had cached
C17_Witness ==
    /\ ret.op = "get_history"
    /\ ret.period_arg = <<"2", "W">>
    /\ ~ret.fetched
    /\ ret.value.period = <<"1", "M">>
    /\ ret.key \in DOMAIN lastFetch
    /\ lastFetch[ret.key].value = ret.value
    /\ DOMAIN cache = {ret.key}

(***************************************************************************)
(* Claims about the catalyst calendar                                      *)
(***************************************************************************)

\* C5: two get_catalysts calls made on the same UTC calendar day return the
\* same list object (the day of a call is the day on which it reads today).
C5_SameListWithinDay ==
    \A p \in served : \A q \in served : p[1] = q[1] => p[2] = q[2]

\* C5 witness: a call was answered from the daily cache with the list object
\* that another call generated earlier that day
C5_Witness ==
    /\ ret.op = "get_catalysts"
    /\ ~ret.generated
    /\ \E g \in gens : g.id = ret.value.id /\ g.day = utc_today(ret.called_at)

C7_SortedByDate ==
    ret.op = "get_catalysts" =>
        \A i \in 1..(Len(ret.value.events) - 1) :
            ret.value.events[i].date <= ret.value.events[i + 1].date

\* C8: every event get_catalysts returns, from the cache or freshly generated,
\* has a date at or after the time of the call (checked against the clock when
\* the call returns, which is not before the call was made).
C8_EventsInFuture ==
    ret.op = "get_catalysts" =>
        \A i \in 1..Len(ret.value.events) :
            /\ ret.value.events[i].date >= now
            /\ ret.value.events[i].date >= ret.called_at

\* C8 witness: a call late in the day was answered from a list generated
\* earlier that day
C8_Witness ==
    /\ ret.op = "get_catalysts"
    /\ ~ret.generated
    /\ now >= CACHE_TIMESTAMP[1] + 14 * HOUR

(***************************************************************************)
(* Claims about the AI explanation service                                 *)
(***************************************************************************)

\* C9: whatever the request, the context fetches and the LLM do,
\* generate_explanation does not raise and returns all five narrative fields
\* non-empty.
C9_AlwaysFiveFields ==
    ai.pc = "done" =>
        /\ ai.result.status = "returned"
        /\ \A k \in RequiredKeys : ai.result.fields[k] = "text"

\* C10: _call_openai makes at most 2 completion calls, the first at
\* temperature 0.7 and the second at 0.5; the second only after the first
\* raised or gave no valid parse; a valid parse ends the loop at once and is
\* what is returned; the template is returned when both attempts fail.
C10_TwoAttempts ==
    ai.pc # "idle" =>
        LET calls == ai.calls
            n == Len(ai.calls)
        IN  /\ n <= 2
            /\ n >= 1 => calls[1].temperature = "0.7"
            /\ n = 2 => calls[2].temperature = "0.5" /\ calls[1].verdict # "valid"
            /\ ai.pc = "llm" => n = ai.attempt /\ n < 2
            /\ \A i \in 1..n : calls[i].verdict = "valid" =>
                   /\ i = n
                   /\ ai.pc = "done"
                   /\ ai.result = BuildResponse(calls[i].parsed, "parsed")
            /\ (ai.pc = "done" /\ n > 0 /\ calls[n].verdict # "valid") =>
                   /\ n = 2
                   /\ ai.result.via = "fallback"
                   /\ \A k \in RequiredKeys : ai.result.fields[k] = "text"

\* C10 witness: the first attempt raised, the retry parsed, and its parse was
\* returned
C10_Witness ==
    /\ ai.pc = "done"
    /\ Len(ai.calls) = 2
    /\ ai.calls[1].verdict = "raised"
    /\ ai.calls[2].verdict = "valid"
    /\ ai.result.via = "parsed"

\* C11: when mock mode is on or no API key is configured (no client),
\* generate_explanation makes no completion call and answers from the
\* template.
C11_NoLlmWithoutKey ==
    (ai.pc # "idle" /\ (mock \/ ~ai.has_client)) =>
        /\ ai.calls = << >>
        /\ ai.pc = "done"
        /\ ai.result = BuildResponse(
               generate_fallback_response(ai.symbol, ai.snapshot, ai.outlook),
               "fallback")
        /\ ai.result.status = "returned"

\* C11 witness: live mode without a client answered a ticker question from
\* the ticker template
C11_Witness ==
    /\ ~mock
    /\ ai.pc = "done"
    /\ ~ai.has_client
    /\ ai.snapshot
    /\ ai.calls = << >>
    /\ ai.result.via = "fallback"

(***************************************************************************)
(* Claims about the ticker service                                         *)
(***************************************************************************)

\* C12: in mock mode a snapshot request for any symbol, in the built-in table
\* or not, succeeds with data whose ticker is the normalized symbol.
C12_MockSnapshotSucceeds ==
    (mock /\ ret.op = "get_snapshot") =>
        /\ ret.outcome = "data"
        /\ ret.value.ticker = Canon(ret.arg)

\* C20: get_snapshot(S) gets its price through PriceProvider.get_price(S):
\* after the call the cache holds a fresh price entry for S, and a snapshot
\* that was produced carries the current price of that cached PriceData.
C20_SnapshotThroughPriceProvider ==
    ret.op = "get_snapshot" =>
        /\ ret.key \in DOMAIN cache
        /\ now <= cache[ret.key].expires_at
        /\ ret.outcome = "data" =>
               ret.value.current_price = cache[ret.key].value.current_price

(***************************************************************************)
(* Claims about the provider guards                                        *)
(***************************************************************************)

\* C13: a guarded function called by code of the app.providers namespace runs
\* and returns, with no DirectAPIAccessError and no warning, whether debug
\* mode is on or off.
C13_ProvidersPassSilently ==
    (ret.op = "guarded_call" /\ StartsWithAppProviders(ret.stack[1])) =>
        /\ ret.outcome = "returned"
        /\ ret.executions = 1
        /\ ~ret.warned

\* C14: when the caller the guard identified is outside app.providers, the
\* wrapped function runs if and only if debug mode is off: in debug mode
\* DirectAPIAccessError is raised and the function does not run; otherwise a
\* warning is logged and the function runs once and its result is returned.
C14_FailClosedOnlyInDebug ==
    (ret.op = "guarded_call" /\ ~StartsWithAppProviders(ret.caller)) =>
        /\ ret.executions = 1 <=> ~ret.debug
        /\ ret.debug =>
               /\ ret.outcome = "DirectAPIAccessError"
               /\ ret.executions = 0
               /\ ~ret.warned
        /\ ~ret.debug =>
               /\ ret.outcome = "returned"
               /\ ret.executions = 1
               /\ ret.warned

\* C14 witness: in debug mode a call straight from a service was refused
C14_Witness ==
    /\ ret.op = "guarded_call"
    /\ ret.debug
    /\ ret.stack[1] = <<"app", "services", "ticker_service">>
    /\ ret.caller = <<"app", "services", "ticker_service", ":", "function">>
    /\ ret.outcome = "DirectAPIAccessError"
    /\ ret.executions = 0

(***************************************************************************)
(* Claims about the news service                                           *)
(***************************************************************************)

\* C15: every item NewsService.get_news returns was published within the
\* last 7 days, except that a query with no ticker and a sector, when no
\* fetched item is that recent, gets items published 30 to 60 days ago; a
\* query with a ticker gets nothing older than 7 days, and an empty list when
\* nothing is that recent.
C15_SevenDaysOrMacroFallback ==
    ret.op = "news_service" =>
        LET Recent(p) == p >= now - 7 * DAY
            none_recent ==
                \A i \in 1..Len(ret.fetched) : ~Recent(now - ret.fetched[i].age * DAY)
            macro == ~Truthy(ret.ticker) /\ ret.sector # NoSymbol
        IN  /\ \A i \in 1..Len(ret.value) :
                   \/ Recent(fromisoformat(ret.value[i].published))
                   \/ /\ macro
                      /\ none_recent
                      /\ now - 60 * DAY <= fromisoformat(ret.value[i].published)
                      /\ fromisoformat(ret.value[i].published) <= now - 30 * DAY
            /\ Truthy(ret.ticker) =>
                   /\ \A i \in 1..Len(ret.value) : Recent(fromisoformat(ret.value[i].published))
                   /\ none_recent => ret.value = << >>

\* C15 witness: a sector query with nothing recent was answered from the
\* 30-60 day window, an item exactly 60 days old included
C15_Witness ==
    /\ ret.op = "news_service"
    /\ ret.ticker = NoSymbol
    /\ ret.sector = <<"t", "e", "c", "h">>
    /\ Len(ret.fetched) = 2
    /\ Len(ret.value) = 1
    /\ fromisoformat(ret.value[1].published) = now - 60 * DAY

(***************************************************************************)
(* C21: compute_outlook raises NotFound whenever the three-year history    *)
(* has fewer than timeframe_days + 1 points, and when it has at least that *)
(* many it returns an outlook computed from len - timeframe_days >= 1      *)
(* rolling returns.                                                        *)
(***************************************************************************)
C21_NotFoundIffTooFewPoints ==
    /\ (ret.op = "compute_outlook" /\ ret.history = None) =>
           ret.outcome = ret.history_outcome /\ ret.outcome # "return"
    /\ (ret.op = "compute_outlook" /\ ret.history # None) =>
        /\ ret.outcome = "TickerNotFoundError"
               <=> ret.history.npoints < ret.timeframe_days + 1
        /\ ret.history.npoints >= ret.timeframe_days + 1 =>
               /\ ret.outcome = "return"
               /\ ret.rolling = ret.history.npoints - ret.timeframe_days
               /\ ret.rolling >= 1
        /\ ret.history_outcome = "data"

\* both sides of the threshold have been seen: a history of exactly
\* timeframe_days + 1 points served, one of timeframe_days points refused
C21_Witness ==
    /\ ret.op = "compute_outlook"
    /\ ret.history # None
    /\ ret.history.npoints = ret.timeframe_days + 1
    /\ ret.outcome = "return"
    /\ ret.rolling = 1

C21_WitnessRefused ==
    /\ ret.op = "compute_outlook"
    /\ ret.history # None
    /\ ret.history.npoints = ret.timeframe_days
    /\ ret.outcome = "TickerNotFoundError"

(***************************************************************************)
(* C22: _determine_sentiment is positive iff hit_rate > 0.55 and the       *)
(* recent return > 0, cautious iff hit_rate < 0.45 or the recent return    *)
(* < -0.10, and mixed in every other case; the cases exclude each other.   *)
(***************************************************************************)
C22_SentimentCases ==
    ret.op = "determine_sentiment" =>
        LET h == ret.hit_rate
            r == ret.recent_90d_return
            pos == h > 55 /\ ~r.nan /\ r.v > 0
            cau == h < 45 \/ (~r.nan /\ r.v < -10)
        IN  /\ ret.sentiment = "positive" <=> pos
            /\ ret.sentiment = "cautious" <=> cau
            /\ ret.sentiment = "mixed" <=> (~pos /\ ~cau)
            /\ ~(pos /\ cau)
            /\ ret.sentiment \in {"positive", "cautious", "mixed"}

\* a pair on a threshold: a hit rate of exactly 0.55 with a rising price is mixed
C22_Witness ==
    /\ ret.op = "determine_sentiment"
    /\ ret.hit_rate = 55
    /\ ret.recent_90d_return = Num(1)
    /\ ret.sentiment = "mixed"

(***************************************************************************)
(* C23: a window is selected exactly when its start date satisfies the     *)
(* calendar predicate of every recognised tag of the list; unrecognised    *)
(* tags include and exclude nothing, and with no recognised tag every      *)
(* window is selected.                                                     *)
(***************************************************************************)
\* what each raw tag means to a reader of the synonym table
C23_Meaning(raw) ==
    CASE raw = <<"e", "a", "r", "n", "i", "n", "g", "s">> -> {TagEarnings}
      [] raw = <<"E", "a", "r", "n", "i", "n", "g", "s", " ", "W", "e", "e", "k">> -> {TagEarnings}
      [] raw = <<" ", "F", "O", "M", "C", " ">> -> {TagFedWeek}
      [] raw = <<"f", "e", "d", " ", "w", "e", "e", "k">> -> {TagFedWeek}
      [] raw = <<"c", "p", "i">> -> {TagHighInflation}
      [] raw = <<"i", "n", "f", "l", "a", "t", "i", "o", "n">> -> {TagHighInflation}
      [] OTHER -> {}

C23_Predicate(tag, date) ==
    CASE tag = TagEarnings -> date.month \in {1, 4, 7, 10}
      [] tag = TagFedWeek -> date.month \in {1, 3, 5, 6, 7, 9, 11, 12}
      [] tag = TagHighInflation -> date.year \in {2021, 2022}

C23_SelectedIffAllTagsMatch ==
    ret.op = "build_pattern" =>
        LET recognised == UNION {C23_Meaning(ret.context[i]) : i \in 1..Len(ret.context)}
            windows == 0 .. (Len(ret.points) - 5)
        IN  /\ ret.selected =
                   {idx \in windows :
                       \A tag \in recognised : C23_Predicate(tag, ret.points[idx + 1].date)}
            /\ recognised = {} => ret.selected = windows

\* two recognised tags of which a window start satisfies only one, so that the
\* window is left out while another one is selected
C23_Witness ==
    /\ ret.op = "build_pattern"
    /\ ret.context = <<<<"E", "a", "r", "n", "i", "n", "g", "s", " ", "W", "e", "e", "k">>, <<" ", "F", "O", "M", "C", " ">>>>
    /\ ret.selected # {}
    /\ \E idx \in 0 .. (Len(ret.points) - 5) :
           /\ idx \notin ret.selected
           /\ ret.points[idx + 1].date.month \in {4, 10}

(***************************************************************************)
(* C24: with at least one tag supplied and no matching window the pattern  *)
(* is aggregated over all windows and the notes say that there were no     *)
(* direct matches; with a matching window only the matching windows are    *)
(* aggregated and the notes do not say so.                                 *)
(***************************************************************************)
C24_FallbackToAllWindows ==
    ret.op = "build_pattern" =>
        LET windows == 0 .. (Len(ret.points) - 5)
        IN  /\ (ret.context # << >> /\ ret.selected = {}) =>
                   /\ ret.pattern.aggregated = windows
                   /\ ret.pattern.sample_size = Cardinality(windows)
                   /\ ret.pattern.notes.text = "No direct matches"
            /\ ret.selected # {} =>
                   /\ ret.pattern.aggregated = ret.selected
                   /\ ret.pattern.sample_size = Cardinality(ret.selected)
                   /\ ret.pattern.notes.text # "No direct matches"

\* a tag list that matches no window of the history
C24_Witness ==
    /\ ret.op = "build_pattern"
    /\ ret.context # << >>
    /\ ret.selected = {}
    /\ ret.pattern.sample_size = Len(ret.points) - 4
    /\ ret.pattern.notes.text = "No direct matches"

(***************************************************************************)
(* C25: the list NewsService.get_news returns has at most limit records    *)
(* and is ordered by descending relevance, records of equal relevance by   *)
(* descending publication time.                                            *)
(***************************************************************************)
C25_RankedAndTruncated ==
    ret.op = "news_service" =>
        /\ Len(ret.value) <= ret.limit
        /\ \A i, j \in 1..Len(ret.value) :
               i < j =>
                   \/ ret.value[i].relevance > ret.value[j].relevance
                   \/ /\ ret.value[i].relevance = ret.value[j].relevance
                      /\ fromisoformat(ret.value[i].published)
                             >= fromisoformat(ret.value[j].published)

\* two records of equal relevance that the provider delivered older first
\* were returned newer first
C25_Witness ==
    /\ ret.op = "news_service"
    /\ Len(ret.fetched) = 2
    /\ ret.fetched[1].age > ret.fetched[2].age
    /\ Len(ret.value) = 2
    /\ ret.value[1].relevance = ret.value[2].relevance
    /\ ret.value[1].headline = ret.fetched[2].id
    /\ ret.value[2].headline = ret.fetched[1].id

\* a list cut to the limit
C25_WitnessTruncated ==
    /\ ret.op = "news_service"
    /\ ret.limit = 1
    /\ Len(ret.value) = 1
    /\ Len(ret.fetched) = 2
    /\ \A i \in 1..2 : ret.fetched[i].age <= 7

(***************************************************************************)
(* C26: no module under app/api imports app.providers or a submodule of    *)
(* it; what a router imports from the application is a model, a service or *)
(* the router package itself.                                              *)
(***************************************************************************)
C26_NoProviderImportInApi ==
    /\ ret.op = "scan" => ret.provider_imports = {}
    /\ \A m \in Scanned : \A imp \in ApiImports(m) :
           imp.module[1] = "app" =>
               /\ Len(imp.module) >= 2
               /\ imp.module[2] \in {"api", "models", "services"}

\* every file of the package has been read
C26_Witness ==
    /\ ret.op = "scan"
    /\ ret.scanned = ApiModules
    /\ ret.provider_imports = {}

(***************************************************************************)
(* C27: cleanup_expired removes exactly the entries whose expiry time has  *)
(* passed and returns their number; unexpired entries and both counters    *)
(* stay as they are, and a cleanup that follows a cleanup at the same      *)
(* instant returns 0.                                                      *)
(***************************************************************************)
CleanupStep ==
    ret'.op = "cleanup_expired" =>
        LET passed == {k \in DOMAIN cache : now > cache[k].expires_at}
        IN  /\ DOMAIN cache' = (DOMAIN cache) \ passed
            /\ \A k \in DOMAIN cache' : cache'[k] = cache[k]
            /\ ret'.count = Cardinality(passed)
            /\ hits' = hits
            /\ misses' = misses
            /\ now' = now
            /\ ret.op = "cleanup_expired" => ret'.count = 0

C27_CleanupRemovesExpiredOnly == [][CleanupStep]_vars

\* a cleanup removed an expired entry and left an unexpired one, after reads
\* had been counted
C27_Witness ==
    /\ ret.op = "cleanup_expired"
    /\ ret.count >= 1
    /\ cache # EmptyDict
    /\ hits + misses >= 1

(***************************************************************************)
(* C28: get_price / get_history with use_cache=false never reads the       *)
(* cache and moves neither counter, always fetches from the source, and    *)
(* writes the fetched data through the cache, so that a following call     *)
(* with use_cache=true within the TTL returns that data.                   *)
(***************************************************************************)
ProviderTtl(op) == IF op = "get_price" THEN TTL_PRICE ELSE TTL_HISTORY

\* the call with use_cache=false
UncachedStep ==
    (ret'.op \in {"get_price", "get_history"} /\ ~ret'.use_cache) =>
        /\ hits' = hits
        /\ misses' = misses
        /\ ret'.fetched
        /\ \A k \in (DOMAIN cache) \ {ret'.key} : k \in DOMAIN cache' /\ cache'[k] = cache[k]
        /\ ret'.outcome = "data" =>
               /\ DOMAIN cache' = (DOMAIN cache) \cup {ret'.key}
               /\ cache'[ret'.key] =
                      [value |-> ret'.value, expires_at |-> now + ProviderTtl(ret'.op)]
               /\ ret'.value.timestamp = now
        /\ ret'.outcome # "data" => cache' = cache

\* the call with use_cache=true that finds what was written: directly after
\* the write, or later while the entry has not expired
FollowingCachedStep ==
    (ret'.op \in {"get_price", "get_history"} /\ ret'.use_cache) =>
        /\ (ret.op = ret'.op /\ ret.key = ret'.key /\ ~ret.use_cache
              /\ ret.outcome = "data") =>
               ret'.value = ret.value /\ ~ret'.fetched
        /\ (ret'.key \in DOMAIN cache /\ now <= cache[ret'.key].expires_at) =>
               ret'.value = cache[ret'.key].value /\ ~ret'.fetched

C28_UncachedCallWritesThrough == [][UncachedStep /\ FollowingCachedStep]_vars

\* a cached history call, some time after the write, was a hit although no
\* cached call had ever missed: what it returned was written by a call with
\* use_cache=false
C28_Witness ==
    /\ ret.op = "get_history"
    /\ ret.use_cache
    /\ ~ret.fetched
    /\ hits = 1
    /\ misses = 0
    /\ ret.value.timestamp < now

(***************************************************************************)
(* C29 as stated: when a provider fetch fails with NotFound or             *)
(* UpstreamUnavailable no value is written for the requested key, so a     *)
(* later call for the same key fetches again.                              *)
(***************************************************************************)
ProviderOps == {"get_price", "get_history"}

\* the failing call writes nothing: the entry of the key is as it was, or has
\* gone because the read found it expired
FailedFetchStep ==
    (ret'.op \in ProviderOps /\ ret'.outcome # "data") =>
        /\ ret'.outcome \in {"TickerNotFoundError", "ExternalServiceError"}
        /\ ret'.value = None
        /\ \A k \in DOMAIN cache' : k \in DOMAIN cache /\ cache'[k] = cache[k]
        /\ \A k \in (DOMAIN cache) \ {ret'.key} : k \in DOMAIN cache'
        /\ nextId' = nextId

\* the next call for the key of a call that failed
AfterFailure ==
    /\ ret.op \in ProviderOps
    /\ ret.outcome # "data"
    /\ ret'.op = ret.op
    /\ ret'.key = ret.key
    /\ (ret'.use_cache => hits' + misses' = hits + misses + 1)

C29_AsStated == [][FailedFetchStep /\ (AfterFailure => ret'.fetched)]_vars

(***************************************************************************)
(* C29 amended: a failing fetch writes nothing, and the next call for the  *)
(* key fetches again unless the failing call was made with use_cache=false *)
(* while an entry written by an earlier successful fetch was still         *)
(* unexpired: then a call with use_cache=true returns that earlier data.   *)
(* A failure is never what the cache returns.                              *)
(***************************************************************************)
LaterCallStep ==
    AfterFailure =>
        \/ ret'.fetched
        \/ /\ ~ret.use_cache
           /\ ret'.use_cache
           /\ ret'.key \in DOMAIN cache
           /\ now <= cache[ret'.key].expires_at
           /\ ret'.value = cache[ret'.key].value
           /\ ret'.value.kind \in {"PriceData", "HistoryData"}
           /\ ret'.value.timestamp + ProviderTtl(ret'.op) = cache[ret'.key].expires_at

C29_FailureWritesNothing == [][FailedFetchStep /\ LaterCallStep]_vars

\* a call with use_cache=false failed while the key had an unexpired entry,
\* which is still there
C29_Witness ==
    /\ ret.op \in ProviderOps
    /\ ret.outcome = "TickerNotFoundError"
    /\ ~ret.use_cache
    /\ ret.key \in DOMAIN cache
    /\ now <= cache[ret.key].expires_at

\* a call with use_cache=true missed, failed and left no entry
C29_WitnessMiss ==
    /\ ret.op \in ProviderOps
    /\ ret.outcome = "ExternalServiceError"
    /\ ret.use_cache
    /\ ret.key \notin DOMAIN cache
    /\ misses >= 1

(***************************************************************************)
(* C30: the cached date, the cached event list and the cached generation   *)
(* timestamp are all unset or all set, and when set the cached date is the *)
(* UTC midnight of the day of the timestamp, which is also the day the     *)
(* events are anchored to, even when the clock advances between the two    *)
(* clock reads of get_catalyst_snapshot.                                   *)
(***************************************************************************)
C30_CacheGlobalsAgree ==
    \/ /\ CACHE_DATE = << >>
       /\ CACHED_EVENTS = None
       /\ CACHE_TIMESTAMP = << >>
    \/ /\ CACHE_DATE # << >>
       /\ CACHED_EVENTS # None
       /\ CACHE_TIMESTAMP # << >>
       /\ CACHE_DATE[1] = utc_today(CACHE_TIMESTAMP[1])
       /\ \A i \in 1..Len(CACHED_EVENTS.events) :
              utc_today(CACHED_EVENTS.events[i].date) - EventOffsets[i] * DAY
                  = CACHE_DATE[1]

=============================================================================
